---- MODULE Spec2Model ----
(***************************************************************************)
(* Rating aggregation and caching pipeline of the Stremio rating addon:    *)
(* src/utils/ratingScrapers.ts (two-tier cache, scrapeRatings,             *)
(* getRatingsfromDB) and src/utils/api.ts (getMetadata,                    *)
(* fetchRatingsFromOMDb, formatScore).                                     *)
(*                                                                         *)
(* JavaScript strings are sequences of one-character strings, so that the  *)
(* string operations of the code (split, replace, template literals) are   *)
(* computed and not assumed.  A JavaScript object is a function from the   *)
(* names of the fields it has to their values; a Record<string,string> is  *)
(* a sequence of [key, value] entries in insertion order.                  *)
(*                                                                         *)
(* The program is single-threaded and asynchronous: an action is the       *)
(* settling of one awaited external call together with all the synchronous *)
(* code that runs until the next await of that invocation.                 *)
(***************************************************************************)
EXTENDS Integers, Sequences, FiniteSets, TLC

\* ------------------------------------------------------------------ bounds
\* Date.now() advances by TickMs per Tick, at most MaxTicks times.
MaxTicks == 2
\* Number of scrapeRatings invocations started in one behaviour.
MaxStarts == 2
\* Longest metas array passed to getRatingsfromDB.
MaxItems == 2
\* Longest raw score string given to formatScore, apart from the listed ones.
MaxLen == 3

\* ------------------------------------------------------- program constants
CACHE_TTL == 24 * 60 * 60 * 1000
REDIS_EXPIRE_S == 86400
TickMs == 12 * 60 * 60 * 1000

\* --------------------------------------------------------------- strings
IMDB == <<"i", "m", "d", "b">>
METACRITIC == <<"m", "e", "t", "a", "c", "r", "i", "t", "i", "c">>
ROTTEN_TOMATOES == <<"r", "o", "t", "t", "e", "n", "_", "t", "o", "m", "a", "t", "o", "e", "s">>
ALL == <<"a", "l", "l">>
NA == <<"N", "/", "A">>
KEY_VERSION == <<"v", "1", ".", "0">>
Digits == {"0", "1", "2", "3", "4", "5", "6", "7", "8", "9"}

\* const ratingKeys = ['imdb', 'metacritic', 'rotten_tomatoes']
ratingKeys == <<IMDB, METACRITIC, ROTTEN_TOMATOES>>

\* Mutant of CacheKey: the schema version is left out of the key.
CacheKeyNoVersion(imdbId, key) == imdbId \o <<"_">> \o key

\* `${imdbId}_${key}_v1.0`
CacheKey(imdbId, key) == imdbId \o <<"_">> \o key \o <<"_">> \o KEY_VERSION

\* s.split(sep)[0]: the part of s before the first occurrence of sep.
SplitFirst(s, sep) ==
    IF \E i \in 1..Len(s) : s[i] = sep
    THEN SubSeq(s, 1, (CHOOSE i \in 1..Len(s) :
                          s[i] = sep /\ \A j \in 1..(i - 1) : s[j] # sep) - 1)
    ELSE s

IsScoreChar(c) == c \in Digits \cup {"."}

\* Mutant of StripNonNumeric: the pattern lacks the g flag and only the first
\* character that is neither a digit nor a point is removed.
StripFirstNonNumeric(s) ==
    IF \E i \in 1..Len(s) : ~IsScoreChar(s[i])
    THEN LET p == CHOOSE i \in 1..Len(s) :
                      ~IsScoreChar(s[i]) /\ \A j \in 1..(i - 1) : IsScoreChar(s[j])
         IN  SubSeq(s, 1, p - 1) \o SubSeq(s, p + 1, Len(s))
    ELSE s

\* score.replace(/[^0-9.]/g, '')
StripNonNumeric(s) == SelectSeq(s, IsScoreChar)

formatScore(score) ==
    StripNonNumeric(SplitFirst(SplitFirst(SplitFirst(score, "/"), " "), "%"))

\* key.replace('_', ' '): a string pattern replaces the first occurrence only.
ReplaceFirstUnderscore(s) ==
    IF \E i \in 1..Len(s) : s[i] = "_"
    THEN LET p == CHOOSE i \in 1..Len(s) :
                      s[i] = "_" /\ \A j \in 1..(i - 1) : s[j] # "_"
         IN  SubSeq(s, 1, p - 1) \o <<" ">> \o SubSeq(s, p + 1, Len(s))
    ELSE s

\* `(${key.replace('_', ' ')}: ${value}) `
DescriptionSegment(key, value) ==
    <<"(">> \o ReplaceFirstUnderscore(key) \o <<":", " ">> \o value \o <<")", " ">>

\* ------------------------------------------- Record<string, string> values
EmptyMap == <<>>
Entry(k, v) == [key |-> k, value |-> v]
MapKeys(m) == {m[i].key : i \in 1..Len(m)}
MapHas(m, k) == k \in MapKeys(m)
MapGet(m, k) == m[CHOOSE i \in 1..Len(m) : m[i].key = k].value
\* m[k] = v: an existing key keeps its position, a new key goes last.
MapPut(m, k, v) ==
    IF MapHas(m, k)
    THEN LET p == CHOOSE i \in 1..Len(m) : m[i].key = k
         IN  SubSeq(m, 1, p - 1) \o <<Entry(k, v)>> \o SubSeq(m, p + 1, Len(m))
    ELSE Append(m, Entry(k, v))
\* Object.keys(m).length
MapSize(m) == Len(m)

\* ------------------------------------------------------ JavaScript objects
EmptyObject == [f \in {} |-> <<>>]
Undefined == [type |-> "undefined"]
Obj(fields) == [type |-> "object", fields |-> fields]
IsObject(v) == v.type = "object"
HasField(o, f) == IsObject(o) /\ f \in DOMAIN o.fields
\* A string field is truthy when it is present and not the empty string.
Truthy(o, f) == HasField(o, f) /\ o.fields[f] # <<>>
SetField(o, f, v) == Obj((f :> v) @@ o.fields)

\* ------------------------------------------------ fetchRatingsFromOMDb
\* response.data of the OMDb call, as far as the code reads it.  Response and
\* Source are only compared for equality and stay opaque TLA+ strings.
OmdbData(imdbRating, metascore, ratings) ==
    Obj(("Response" :> "True") @@ ("imdbRating" :> imdbRating)
        @@ ("Metascore" :> metascore) @@ ("Ratings" :> ratings))
OmdbNoRatings(imdbRating) ==
    Obj(("Response" :> "True") @@ ("imdbRating" :> imdbRating))
OmdbNotFound == Obj(("Response" :> "False"))
RtEntry(v) == [Source |-> "Rotten Tomatoes", Value |-> v]
ImdbEntry(v) == [Source |-> "Internet Movie Database", Value |-> v]

\* if (response.data.imdbRating && response.data.imdbRating !== 'N/A')
OmdbImdb(data, m) ==
    IF Truthy(data, "imdbRating") /\ data.fields["imdbRating"] # NA
    THEN MapPut(m, IMDB, formatScore(data.fields["imdbRating"]))
    ELSE m

\* if (response.data.Metascore && response.data.Metascore !== 'N/A')
OmdbMetascore(data, m) ==
    IF Truthy(data, "Metascore") /\ data.fields["Metascore"] # NA
    THEN MapPut(m, METACRITIC, formatScore(data.fields["Metascore"]))
    ELSE m

\* Ratings.find(r => r.Source === 'Rotten Tomatoes'): the first such entry,
\* whose Value is normalized without a check for the 'N/A' sentinel.
OmdbRotten(data, m) ==
    IF HasField(data, "Ratings")
    THEN LET rs == data.fields["Ratings"]
             hits == {i \in 1..Len(rs) : rs[i].Source = "Rotten Tomatoes"}
         IN  IF hits # {}
             THEN LET first == CHOOSE i \in hits : \A j \in hits : i <= j
                  IN  MapPut(m, ROTTEN_TOMATOES, formatScore(rs[first].Value))
             ELSE m
    ELSE m

\* The mapping built from a response (api.ts lines 39-61).
OmdbRatingMap(data) ==
    IF IsObject(data) /\ HasField(data, "Response") /\ data.fields["Response"] = "True"
    THEN OmdbRotten(data, OmdbMetascore(data, OmdbImdb(data, EmptyMap)))
    ELSE EmptyMap

\* What fetchRatingsFromOMDb returns once its axios.get has settled: a
\* rejected request is caught and yields {}.
fetchRatingsFromOMDb(outcome) ==
    IF outcome.kind = "ok" THEN OmdbRatingMap(outcome.data) ELSE EmptyMap

\* ---------------------------------------------------------------- Provider filter
Includes(list, x) == \E i \in 1..Len(list) : list[i] = x

\* providers.includes('all') || providers.includes(key)
ProviderPasses(providers, key) == Includes(providers, ALL) \/ Includes(providers, key)

FilterRatings(ratingMap, providers) ==
    LET Pass(e) == ProviderPasses(providers, e.key)
    IN  SelectSeq(ratingMap, Pass)

RECURSIVE Segments(_)
Segments(filtered) ==
    IF filtered = <<>> THEN <<>>
    ELSE DescriptionSegment(Head(filtered).key, Head(filtered).value)
             \o Segments(Tail(filtered))

\* The image addRatingToImage returns for a poster and a rating set: an
\* encoding from which the annotated rating set can be read back.
AnnotatedImage(filtered) == <<"#">> \o Segments(filtered)

\* ------------------------------------------------------------------ inputs
TT1 == <<"t", "t", "1">>
TT2 == <<"t", "t", "2">>
Titles == {TT1}
\* The providers argument of scrapeRatings and getRatingsfromDB.
ProviderArgs == {<<ALL>>, <<METACRITIC>>}
PosterUrl == <<"u", "r", "l">>

\* response.data.meta of the metadata service: a full record, or one with
\* neither description, poster nor year.
FullMeta(id) ==
    Obj(("id" :> id) @@ ("name" :> <<"N">>) @@ ("description" :> <<"D", " ">>)
        @@ ("poster" :> PosterUrl) @@ ("year" :> <<"1", "9", "9", "4">>))
BareMeta(id) == Obj(("id" :> id) @@ ("name" :> <<"N">>))

\* How the axios.get of getMetadata settles: rejected, or fulfilled with a
\* body that has a meta member or has none.
MetadataOutcomes(id) ==
    {[kind |-> "error"], [kind |-> "ok", meta |-> Undefined],
     [kind |-> "ok", meta |-> FullMeta(id)], [kind |-> "ok", meta |-> BareMeta(id)]}

\* getMetadata: return response.data.meta, or {} from the catch block.
getMetadata(outcome) ==
    IF outcome.kind = "ok" THEN outcome.meta ELSE Obj(EmptyObject)

\* How the axios.get of fetchRatingsFromOMDb settles.
OmdbOutcomes ==
    {[kind |-> "error"],
     [kind |-> "ok", data |-> OmdbNotFound],
     [kind |-> "ok", data |-> OmdbNoRatings(<<"9", ".", "3">>)],
     [kind |-> "ok", data |-> OmdbData(<<"8", ".", "1", "/", "1", "0">>, <<"7", "0">>,
                                       <<ImdbEntry(<<"8", ".", "1", "/", "1", "0">>),
                                         RtEntry(<<"9", "1", "%">>)>>)],
     [kind |-> "ok", data |-> OmdbData(<<"7", ".", "5">>, NA, <<RtEntry(NA)>>)]}

\* The metas argument of getRatingsfromDB and what getRatingsfromTTIDs
\* resolves to: the stored ratings of some of the ids.
BulkIds == {TT1, TT2}
BulkItems == {FullMeta(id) : id \in BulkIds} \cup {BareMeta(id) : id \in BulkIds}
BulkInputs == UNION {[1..n -> BulkItems] : n \in 0..MaxItems}
\* The ratings database names its providers itself: besides the names of
\* ratingKeys, a name with two underscores.
RT_AUDIENCE == <<"r", "t", "_", "a", "u", "d", "_", "s", "c", "o", "r", "e">>
DbMaps ==
    {<<Entry(IMDB, <<"8">>)>>,
     <<Entry(IMDB, <<"8">>), Entry(METACRITIC, <<"7", "0">>)>>,
     <<Entry(ROTTEN_TOMATOES, <<"9", "1">>), Entry(RT_AUDIENCE, <<"8", "8">>)>>}
DbOutcomes == UNION {[ids -> DbMaps] : ids \in SUBSET BulkIds}

\* ------------------------------------------------------------------- state
Calls == {1, 2}

VARIABLES
    call,         \* per invocation slot: program counter and locals of scrapeRatings
    memoryCache,  \* const memoryCache = new Map<string, {value, timestamp}>()
    redis,        \* contents of the shared store behind cacheClient
    isOpen,       \* cacheClient.isOpen
    cacheClient,  \* getContext().cacheClient is a client (TRUE) or null (FALSE)
    apiKey,       \* OMDB_API_KEY is set
    now,          \* Date.now()
    started,      \* invocations of scrapeRatings so far
    saved,        \* history: per title, the last completed saveRatingsToCache
    saves,        \* history: completed saveRatingsToCache calls so far
    clean,        \* history: ordinal of the save since which no cache tier changed and no time passed (0: none)
    sharedOk,     \* history: some shared-store operation has succeeded
    bulk,         \* the invocation of getRatingsfromDB: program counter and locals
    applied,      \* the last call of an exported function of api.ts: argument and result
    handler       \* per invocation of the catalog or meta handler: its position

vars == <<call, memoryCache, redis, isOpen, cacheClient, apiKey, now, started,
          saved, saves, clean, sharedOk, bulk, applied, handler>>

\* Invocations of the handlers; one that has not started.  closedUnder is
\* history: closeClient was called while this invocation was handling.
Handlers == {1, 2}
IdleHandler == [pc |-> "idle", kind |-> "none", result |-> "none", closedUnder |-> FALSE]

\* No function of api.ts called yet.
NotApplied == [op |-> "none"]

NoSave == [n |-> 0]

\* getRatingsfromDB not yet called.  metas are the objects of the input
\* array as they are now, input as they were passed; task, filtered and the
\* counters are per item; results is the array Promise.all fills, holding
\* for each position the number of the object put there (0: none yet).
IdleBulk ==
    [pc |-> "idle", input |-> <<>>, metas |-> <<>>, providers |-> <<>>,
     ratings |-> [id \in {} |-> <<>>], task |-> <<>>, filtered |-> <<>>,
     results |-> <<>>,
     \* history of the invocation
     order |-> <<>>, posterFetches |-> <<>>, annotateCalls |-> <<>>]

\* A slot in which no invocation has started.
IdleCall ==
    [pc |-> "idle", imdbId |-> <<>>, providers |-> <<>>, metadata |-> Undefined,
     ratingMap |-> EmptyMap, idx |-> 0, filtered |-> EmptyMap, result |-> Undefined,
     \* history of the invocation
     caught |-> FALSE, threw |-> FALSE, gotMetadata |-> Undefined,
     readDone |-> FALSE, readTier |-> "none", readResult |-> EmptyMap,
     readShared |-> EmptyMap, sharedSets |-> 0,
     readAt |-> 0, readPrior |-> NoSave, readAfter |-> NoSave, roundTrip |-> NoSave,
     fetchCalls |-> 0, liveCalls |-> 0, fetched |-> EmptyMap,
     saveCalls |-> 0, saveStart |-> 0, saveTier |-> "none",
     posterFetches |-> 0, annotateCalls |-> 0]

\* The shared store outlives the process: at start it is empty, or holds an
\* entry an earlier process wrote for the title, 12 hours before its expiry.
InitialStores ==
    {[k \in {} |-> <<>>],
     (CacheKey(TT1, METACRITIC)
          :> [value |-> <<"5", "5">>, hasExpiry |-> TRUE, expireAt |-> TickMs])}

Init ==
    /\ call = [c \in Calls |-> IdleCall]
    /\ memoryCache = [k \in {} |-> <<>>]
    /\ redis \in InitialStores
    /\ isOpen = FALSE
    /\ cacheClient \in BOOLEAN
    /\ apiKey \in BOOLEAN
    /\ now = 0
    /\ started = 0
    /\ saved = [t \in Titles |-> NoSave]
    /\ saves = 0
    /\ clean = 0
    /\ sharedOk = FALSE
    /\ bulk = IdleBulk
    /\ applied = NotApplied
    /\ handler = [h \in Handlers |-> IdleHandler]

\* ------------------------------------------------------------ scrapeRatings
\* The operators below run the synchronous code of one invocation from one
\* point up to its next await.  l is the invocation's record, mem the
\* fallback map and open the value of cacheClient.isOpen at that point; the
\* result is [l |-> the record at the next await, mem |-> the fallback map].

\* return metadata (line 152)
Return(l) == [l EXCEPT !.pc = "done", !.result = l.metadata]

\* catch (error) { ...; return metadata } (lines 153-156)
Catch(l) == [l EXCEPT !.pc = "done", !.result = l.metadata, !.caught = TRUE]

\* metadata.poster && Object.keys(filteredRatings).length > 0 (line 145)
ShouldAnnotate(metadata, filtered) ==
    Truthy(metadata, "poster") /\ MapSize(filtered) > 0

\* Lines 131-152: append the description segments, then fetch the poster or
\* return.  metadata.description of an undefined metadata throws a TypeError.
ApplyFilter(l) ==
    IF ~IsObject(l.metadata) THEN Catch(l)
    ELSE LET description == IF Truthy(l.metadata, "description")
                            THEN l.metadata.fields["description"] ELSE <<>>
             filtered == FilterRatings(l.ratingMap, l.providers)
             l1 == [l EXCEPT !.filtered = filtered,
                             !.metadata = SetField(l.metadata, "description",
                                                   description \o Segments(filtered))]
         IN  IF ShouldAnnotate(l1.metadata, filtered)
             THEN [l1 EXCEPT !.pc = "poster", !.posterFetches = @ + 1]
             ELSE Return(l1)

\* memoryCache.set(cacheKey, {value, timestamp: Date.now()}) for every entry
\* of ratings (lines 97-104).
RECURSIVE MemorySetAll(_, _, _, _)
MemorySetAll(mem, imdbId, ratings, t) ==
    IF ratings = <<>> THEN mem
    ELSE MemorySetAll((CacheKey(imdbId, Head(ratings).key)
                           :> [value |-> Head(ratings).value, timestamp |-> t]) @@ mem,
                      imdbId, Tail(ratings), t)

\* The fallback branch of saveRatingsToCache (lines 96-106), then the rest of
\* scrapeRatings.
SaveToMemory(l, mem) ==
    [l |-> ApplyFilter([l EXCEPT !.saveTier = "memory"]),
     mem |-> MemorySetAll(mem, l.imdbId, l.ratingMap, now)]

\* return after the set/expire loop (line 89), then the rest of scrapeRatings.
SaveToRedisDone(l, mem) ==
    [l |-> ApplyFilter([l EXCEPT !.saveTier = "redis"]), mem |-> mem]

\* if (cacheClient.isOpen) { for (const [key, value] of Object.entries(ratings)) (lines 80-81)
SaveLoop(l, mem, open) ==
    IF open
    THEN IF MapSize(l.ratingMap) > 0
         THEN [l |-> [l EXCEPT !.pc = "save_set", !.idx = 1], mem |-> mem]
         ELSE SaveToRedisDone(l, mem)
    ELSE SaveToMemory(l, mem)

\* saveRatingsToCache up to its first await (lines 69-81).
saveRatingsToCache(l, mem, open) ==
    LET l1 == [l EXCEPT !.saveCalls = @ + 1, !.saveStart = now]
    IN  IF cacheClient
        THEN IF ~open
             THEN [l |-> [l1 EXCEPT !.pc = "save_connect"], mem |-> mem]
             ELSE SaveLoop(l1, mem, open)
        ELSE SaveToMemory(l1, mem)

\* ratingMap = await fetchRatingsFromOMDb(...); save if non-empty (lines 123-129)
AfterFetch(l, mem, open, ratings) ==
    LET l1 == [l EXCEPT !.ratingMap = ratings, !.fetched = ratings]
    IN  IF MapSize(ratings) > 0
        THEN saveRatingsToCache(l1, mem, open)
        ELSE [l |-> ApplyFilter(l1), mem |-> mem]

\* Lines 118-123 and api.ts lines 29-38: metadata.year of an undefined
\* metadata throws; without an API key fetchRatingsFromOMDb returns {} at once.
CallFetch(l, mem, open) ==
    IF ~IsObject(l.metadata) THEN [l |-> Catch(l), mem |-> mem]
    ELSE LET l1 == [l EXCEPT !.fetchCalls = @ + 1]
         IN  IF ~apiKey
             THEN AfterFetch(l1, mem, open, EmptyMap)
             ELSE [l |-> [l1 EXCEPT !.pc = "omdb", !.liveCalls = @ + 1], mem |-> mem]

\* Mutant of AfterRead: a partial cache hit is completed by a live fetch.
AfterReadRefetchPartial(l, mem, open, tier) ==
    LET l1 == [l EXCEPT !.readDone = TRUE, !.readTier = tier, !.readResult = l.ratingMap,
                        !.readAt = now, !.readPrior = saved[l.imdbId],
                        !.roundTrip = IF l.readAfter.n # 0 /\ clean = l.readAfter.n
                                      THEN l.readAfter ELSE NoSave]
    IN  IF MapSize(l1.ratingMap) < Len(ratingKeys)
        THEN CallFetch(l1, mem, open)
        ELSE [l |-> ApplyFilter(l1), mem |-> mem]

\* let ratingMap = await getRatingsFromCache(...); if empty, fetch (lines 116-118)
AfterRead(l, mem, open, tier) ==
    LET l1 == [l EXCEPT !.readDone = TRUE, !.readTier = tier, !.readResult = l.ratingMap,
                        !.readAt = now, !.readPrior = saved[l.imdbId],
                        !.roundTrip = IF l.readAfter.n # 0 /\ clean = l.readAfter.n
                                      THEN l.readAfter ELSE NoSave]
    IN  IF MapSize(l1.ratingMap) = 0
        THEN CallFetch(l1, mem, open)
        ELSE [l |-> ApplyFilter(l1), mem |-> mem]

\* Mutant of MemoryFresh: an entry of age exactly CACHE_TTL still counts.
MemoryFreshInclusive(mem, k, t) ==
    k \in DOMAIN mem /\ (t - mem[k].timestamp) <= CACHE_TTL

\* cachedItem && (Date.now() - cachedItem.timestamp) < CACHE_TTL (line 56)
MemoryFresh(mem, k, t) ==
    k \in DOMAIN mem /\ (t - mem[k].timestamp) < CACHE_TTL

\* The fallback loop of getRatingsFromCache (lines 52-59) from key number i.
RECURSIVE MemoryGetAll(_, _, _, _, _)
MemoryGetAll(ratingMap, mem, imdbId, i, t) ==
    IF i > Len(ratingKeys) THEN ratingMap
    ELSE LET k == CacheKey(imdbId, ratingKeys[i])
         IN  MemoryGetAll(IF MemoryFresh(mem, k, t)
                          THEN MapPut(ratingMap, ratingKeys[i], mem[k].value)
                          ELSE ratingMap,
                          mem, imdbId, i + 1, t)

\* The fallback branch of getRatingsFromCache (lines 51-65): it adds to
\* whatever the shared store already put into ratingMap.
ReadMemory(l, mem, open) ==
    AfterRead([l EXCEPT !.ratingMap = MemoryGetAll(l.ratingMap, mem, l.imdbId, 1, now)],
              mem, open, "memory")

\* Mutant of ReadLoop: with the client not open the read returns the empty
\* mapping without consulting the fallback map.
ReadLoopNoFallback(l, mem, open) ==
    IF open
    THEN [l |-> [l EXCEPT !.pc = "read_get", !.idx = 1], mem |-> mem]
    ELSE AfterRead(l, mem, open, "memory")

\* if (cacheClient.isOpen) { for (const key of ratingKeys) (lines 32-33)
ReadLoop(l, mem, open) ==
    IF open
    THEN [l |-> [l EXCEPT !.pc = "read_get", !.idx = 1], mem |-> mem]
    ELSE ReadMemory(l, mem, open)

\* getRatingsFromCache up to its first await (lines 18-33).
getRatingsFromCache(l, mem, open) ==
    LET l1 == [l EXCEPT !.ratingMap = EmptyMap,
                        !.readAfter = IF saved[l.imdbId].n # 0 /\ saved[l.imdbId].n = clean
                                      THEN saved[l.imdbId] ELSE NoSave]
    IN  IF cacheClient
        THEN IF ~open
             THEN [l |-> [l1 EXCEPT !.pc = "read_connect"], mem |-> mem]
             ELSE ReadLoop(l1, mem, open)
        ELSE ReadMemory(l1, mem, open)

\* ------------------------------------------------------------ shared store
\* The key-value store behind cacheClient: get, set (which drops an earlier
\* expiry of the key) and expire, as called at lines 35, 84 and 85.
RedisLive(store, k, t) ==
    k \in DOMAIN store /\ (~store[k].hasExpiry \/ t < store[k].expireAt)

RedisGet(store, k, t) ==
    IF RedisLive(store, k, t)
    THEN [found |-> TRUE, value |-> store[k].value]
    ELSE [found |-> FALSE, value |-> <<>>]

RedisSet(store, k, v) ==
    (k :> [value |-> v, hasExpiry |-> FALSE, expireAt |-> 0]) @@ store

RedisExpire(store, k, seconds, t) ==
    IF RedisLive(store, k, t)
    THEN [store EXCEPT ![k] = [@ EXCEPT !.hasExpiry = TRUE,
                                        !.expireAt = t + seconds * 1000]]
    ELSE store

\* Mutant of ReadGetPut: the rating replaces the mapping instead of being
\* added to it.
ReadGetPutReplaces(ratingMap, key, rating) ==
    IF rating.found /\ rating.value # <<>>
    THEN <<Entry(key, rating.value)>>
    ELSE ratingMap

\* if (rating) { ratingMap[key] = rating; } (lines 36-38): null and the empty
\* string are falsy.
ReadGetPut(ratingMap, key, rating) ==
    IF rating.found /\ rating.value # <<>>
    THEN MapPut(ratingMap, key, rating.value)
    ELSE ratingMap

\* ----------------------------------------------------------------- actions
Idle(c) == call[c].pc \in {"idle", "done"}

\* The invocation's record and the fallback map after a step, with the
\* history of completed cache writes kept up to date.
Settle(c, r, mutated) ==
    /\ call' = [call EXCEPT ![c] = r.l]
    /\ memoryCache' = r.mem
    /\ IF r.l.saveTier # "none" /\ call[c].saveTier = "none"
       THEN /\ saves' = saves + 1
            /\ saved' = [saved EXCEPT ![r.l.imdbId] =
                            [n |-> saves + 1, map |-> r.l.fetched, tier |-> r.l.saveTier,
                             start |-> r.l.saveStart, time |-> now]]
            /\ clean' = saves + 1
       ELSE /\ saves' = saves
            /\ saved' = saved
            /\ clean' = IF mutated THEN 0 ELSE clean

\* scrapeRatings(imdbId, type, providers) up to the await of getMetadata
\* (lines 110-112).  type only goes into the metadata URL and is left out.
StartScrape(c) ==
    /\ Idle(c)
    /\ \A d \in Calls : d < c => ~Idle(d)
    /\ started < MaxStarts
    /\ \E id \in Titles, providers \in ProviderArgs :
          call' = [call EXCEPT ![c] = [IdleCall EXCEPT !.pc = "metadata",
                                                       !.imdbId = id,
                                                       !.providers = providers]]
    /\ started' = started + 1
    /\ UNCHANGED <<handler, applied, bulk, memoryCache, redis, isOpen, cacheClient, apiKey, now,
                   saved, saves, clean, sharedOk>>

\* getMetadata settles (line 112); getRatingsFromCache is entered (line 116).
MetadataDone(c) ==
    /\ call[c].pc = "metadata"
    /\ \E o \in MetadataOutcomes(call[c].imdbId) :
          Settle(c, getRatingsFromCache([call[c] EXCEPT !.metadata = getMetadata(o),
                                                        !.gotMetadata = getMetadata(o)],
                                        memoryCache, isOpen), FALSE)
    /\ UNCHANGED <<handler, applied, bulk, redis, isOpen, cacheClient, apiKey, now, started, sharedOk>>

\* cacheClient.connect() of getRatingsFromCache settles (lines 26-32).
ReadConnectDone(c) ==
    /\ call[c].pc = "read_connect"
    /\ \E ok \in BOOLEAN :
          /\ isOpen' = (isOpen \/ ok)
          /\ sharedOk' = (sharedOk \/ ok)
          /\ Settle(c, ReadLoop(call[c], memoryCache, isOpen \/ ok), FALSE)
    /\ UNCHANGED <<handler, applied, bulk, redis, cacheClient, apiKey, now, started>>

\* One cacheClient.get(cacheKey) settles (lines 33-48): a rejected get goes
\* to the catch block and on to the fallback loop with ratingMap as it is.
ReadGetDone(c) ==
    /\ call[c].pc = "read_get"
    /\ \E ok \in BOOLEAN :
          LET l == call[c]
              rating == RedisGet(redis, CacheKey(l.imdbId, ratingKeys[l.idx]), now)
              l1 == [l EXCEPT !.ratingMap = ReadGetPut(@, ratingKeys[l.idx], rating),
                              !.readShared = ReadGetPut(@, ratingKeys[l.idx], rating)]
          IN  /\ sharedOk' = (sharedOk \/ ok)
              /\ IF ok
                 THEN IF l.idx < Len(ratingKeys)
                      THEN Settle(c, [l |-> [l1 EXCEPT !.idx = @ + 1], mem |-> memoryCache], FALSE)
                      ELSE IF MapSize(l1.ratingMap) > 0
                           THEN Settle(c, AfterRead(l1, memoryCache, isOpen, "redis"), FALSE)
                           ELSE Settle(c, ReadMemory(l1, memoryCache, isOpen), FALSE)
                 ELSE Settle(c, ReadMemory(l, memoryCache, isOpen), FALSE)
    /\ UNCHANGED <<handler, applied, bulk, redis, isOpen, cacheClient, apiKey, now, started>>

\* The axios.get of fetchRatingsFromOMDb settles (api.ts lines 38-65).
OmdbDone(c) ==
    /\ call[c].pc = "omdb"
    /\ \E o \in OmdbOutcomes :
          Settle(c, AfterFetch(call[c], memoryCache, isOpen, fetchRatingsFromOMDb(o)), FALSE)
    /\ UNCHANGED <<handler, applied, bulk, redis, isOpen, cacheClient, apiKey, now, started, sharedOk>>

\* cacheClient.connect() of saveRatingsToCache settles (lines 74-80).
SaveConnectDone(c) ==
    /\ call[c].pc = "save_connect"
    /\ \E ok \in BOOLEAN :
          /\ isOpen' = (isOpen \/ ok)
          /\ sharedOk' = (sharedOk \/ ok)
          /\ Settle(c, SaveLoop(call[c], memoryCache, isOpen \/ ok), FALSE)
    /\ UNCHANGED <<handler, applied, bulk, redis, cacheClient, apiKey, now, started>>

\* cacheClient.set(cacheKey, value) settles (line 84).
SaveSetDone(c) ==
    /\ call[c].pc = "save_set"
    /\ \E ok \in BOOLEAN :
          LET l == call[c]
              e == l.ratingMap[l.idx]
              k == CacheKey(l.imdbId, e.key)
          IN  /\ sharedOk' = (sharedOk \/ ok)
              /\ IF ok
                 THEN /\ redis' = RedisSet(redis, k, e.value)
                      /\ Settle(c, [l |-> [l EXCEPT !.pc = "save_expire", !.sharedSets = @ + 1],
                                    mem |-> memoryCache], TRUE)
                 ELSE /\ redis' = redis
                      /\ Settle(c, SaveToMemory(l, memoryCache), TRUE)
    /\ UNCHANGED <<handler, applied, bulk, isOpen, cacheClient, apiKey, now, started>>

\* cacheClient.expire(cacheKey, 86400) settles (line 85).
SaveExpireDone(c) ==
    /\ call[c].pc = "save_expire"
    /\ \E ok \in BOOLEAN :
          LET l == call[c]
              k == CacheKey(l.imdbId, l.ratingMap[l.idx].key)
          IN  /\ sharedOk' = (sharedOk \/ ok)
              /\ IF ok
                 THEN /\ redis' = RedisExpire(redis, k, REDIS_EXPIRE_S, now)
                      /\ IF l.idx < MapSize(l.ratingMap)
                         THEN Settle(c, [l |-> [l EXCEPT !.pc = "save_set", !.idx = @ + 1],
                                         mem |-> memoryCache], TRUE)
                         ELSE Settle(c, SaveToRedisDone(l, memoryCache), TRUE)
                 ELSE /\ redis' = redis
                      /\ Settle(c, SaveToMemory(l, memoryCache), TRUE)
    /\ UNCHANGED <<handler, applied, bulk, isOpen, cacheClient, apiKey, now, started>>

\* axios.get(metadata.poster) settles (lines 146-148): addRatingToImage is
\* called with the encoded image, or the rejection goes to the catch block.
PosterDone(c) ==
    /\ call[c].pc = "poster"
    /\ \E ok \in BOOLEAN :
          call' = [call EXCEPT ![c] = IF ok
                                      THEN [@ EXCEPT !.pc = "annotate", !.annotateCalls = @ + 1]
                                      ELSE Catch(@)]
    /\ UNCHANGED <<handler, applied, bulk, memoryCache, redis, isOpen, cacheClient, apiKey, now, started,
                   saved, saves, clean, sharedOk>>

\* addRatingToImage settles (lines 148-152).
AnnotateDone(c) ==
    /\ call[c].pc = "annotate"
    /\ \E ok \in BOOLEAN :
          call' = [call EXCEPT ![c] =
                      IF ok
                      THEN Return([@ EXCEPT !.metadata =
                                       SetField(@, "poster", AnnotatedImage(call[c].filtered))])
                      ELSE Catch(@)]
    /\ UNCHANGED <<handler, applied, bulk, memoryCache, redis, isOpen, cacheClient, apiKey, now, started,
                   saved, saves, clean, sharedOk>>

\* Date.now() advances.
Tick ==
    /\ now < MaxTicks * TickMs
    /\ now' = now + TickMs
    /\ clean' = 0
    /\ UNCHANGED <<handler, applied, bulk, call, memoryCache, redis, isOpen, cacheClient, apiKey, started,
                   saved, saves, sharedOk>>

\* Invocations of scrapeRatings follow one another in slot 1.
Next ==
    \/ StartScrape(1)
    \/ \E c \in Calls : MetadataDone(c)
    \/ \E c \in Calls : ReadConnectDone(c)
    \/ \E c \in Calls : ReadGetDone(c)
    \/ \E c \in Calls : OmdbDone(c)
    \/ \E c \in Calls : SaveConnectDone(c)
    \/ \E c \in Calls : SaveSetDone(c)
    \/ \E c \in Calls : SaveExpireDone(c)
    \/ \E c \in Calls : PosterDone(c)
    \/ \E c \in Calls : AnnotateDone(c)
    \/ Tick

Spec == Init /\ [][Next]_vars

\* --------------------------------------------------------- getRatingsfromDB
\* Mutant of PromiseAllFulfil: values are collected in the order in which the
\* promises are fulfilled.
PromiseAllFulfilInCompletionOrder(results, i, ref) ==
    LET free == CHOOSE j \in 1..Len(results) :
                    results[j] = 0 /\ \A h \in 1..(j - 1) : results[h] # 0
    IN  [results EXCEPT ![free] = ref]

\* Promise.all puts the value of the i-th promise at position i of its result.
PromiseAllFulfil(results, i, ref) == [results EXCEPT ![i] = ref]

\* The callback of metas.map for one item, up to its first await (lines
\* 165-180): [meta, task, filtered, fetches].
BulkStartTask(meta, ratings, providers) ==
    IF meta.fields["id"] \notin DOMAIN ratings
    THEN [meta |-> meta, task |-> "fulfilled", filtered |-> EmptyMap, fetches |-> 0]
    ELSE LET stored == ratings[meta.fields["id"]]
             description == IF Truthy(meta, "description")
                            THEN meta.fields["description"] ELSE <<>>
             filtered == FilterRatings(stored, providers)
             meta1 == SetField(meta, "description", description \o Segments(filtered))
         IN  \* if (meta.poster && Object.keys(ratings[meta.id]).length > 0)
             IF Truthy(meta1, "poster") /\ MapSize(stored) > 0
             THEN [meta |-> meta1, task |-> "poster", filtered |-> filtered, fetches |-> 1]
             ELSE [meta |-> meta1, task |-> "fulfilled", filtered |-> filtered, fetches |-> 0]

\* Promise.all over the promises that are fulfilled when it is called: they
\* are taken in array order.
RECURSIVE BulkCollect(_, _, _)
BulkCollect(b, task, i) ==
    IF i > Len(task) THEN b
    ELSE BulkCollect(IF task[i] = "fulfilled"
                     THEN [b EXCEPT !.results = PromiseAllFulfil(@, i, i),
                                    !.order = Append(@, i)]
                     ELSE b,
                     task, i + 1)

\* The promise of Promise.all: fulfilled once every task is, rejected with
\* the first task that is; a settled promise stays as it is.
BulkSettle(b) ==
    IF b.pc # "tasks" THEN b
    ELSE IF \E i \in 1..Len(b.task) : b.task[i] = "rejected"
         THEN [b EXCEPT !.pc = "rejected"]
         ELSE IF \A i \in 1..Len(b.task) : b.task[i] = "fulfilled"
              THEN [b EXCEPT !.pc = "resolved"]
              ELSE b

\* getRatingsfromDB(metas, providers) up to the await of getRatingsfromTTIDs
\* (lines 160-162).
StartBulk ==
    /\ bulk.pc = "idle"
    /\ \E metas \in BulkInputs, providers \in ProviderArgs :
          bulk' = [IdleBulk EXCEPT !.pc = "lookup", !.input = metas, !.metas = metas,
                                   !.providers = providers]
    /\ UNCHANGED <<handler, applied, call, memoryCache, redis, isOpen, cacheClient, apiKey, now, started,
                   saved, saves, clean, sharedOk>>

\* getRatingsfromTTIDs settles (lines 162-189): a rejection leaves
\* getRatingsfromDB rejected; otherwise every callback runs up to its first
\* await and Promise.all is called.
BulkLookupDone ==
    /\ bulk.pc = "lookup"
    /\ \/ bulk' = [bulk EXCEPT !.pc = "rejected"]
       \/ \E ratings \in DbOutcomes :
             LET n == Len(bulk.metas)
                 t == [i \in 1..n |-> BulkStartTask(bulk.metas[i], ratings, bulk.providers)]
                 b == [bulk EXCEPT !.pc = "tasks",
                                   !.ratings = ratings,
                                   !.metas = [i \in 1..n |-> t[i].meta],
                                   !.task = [i \in 1..n |-> t[i].task],
                                   !.filtered = [i \in 1..n |-> t[i].filtered],
                                   !.posterFetches = [i \in 1..n |-> t[i].fetches],
                                   !.annotateCalls = [i \in 1..n |-> 0],
                                   !.results = [i \in 1..n |-> 0]]
             IN  bulk' = BulkSettle(BulkCollect(b, b.task, 1))
    /\ UNCHANGED <<handler, applied, call, memoryCache, redis, isOpen, cacheClient, apiKey, now, started,
                   saved, saves, clean, sharedOk>>

\* axios.get(meta.poster) of item i settles (lines 180-182); nothing catches
\* a rejection, so the item's promise is rejected.
BulkPosterDone(i) ==
    /\ i \in 1..Len(bulk.task)
    /\ bulk.task[i] = "poster"
    /\ \E ok \in BOOLEAN :
          bulk' = IF ok
                  THEN [bulk EXCEPT !.task[i] = "annotate", !.annotateCalls[i] = @ + 1]
                  ELSE BulkSettle([bulk EXCEPT !.task[i] = "rejected"])
    /\ UNCHANGED <<handler, applied, call, memoryCache, redis, isOpen, cacheClient, apiKey, now, started,
                   saved, saves, clean, sharedOk>>

\* addRatingToImage of item i settles (lines 182-186).
BulkAnnotateDone(i) ==
    /\ i \in 1..Len(bulk.task)
    /\ bulk.task[i] = "annotate"
    /\ \E ok \in BOOLEAN :
          bulk' = IF ok
                  THEN BulkSettle([bulk EXCEPT
                           !.task[i] = "fulfilled",
                           !.metas[i] = SetField(@, "poster", AnnotatedImage(bulk.filtered[i])),
                           !.results = PromiseAllFulfil(@, i, i),
                           !.order = Append(@, i)])
                  ELSE BulkSettle([bulk EXCEPT !.task[i] = "rejected"])
    /\ UNCHANGED <<handler, applied, call, memoryCache, redis, isOpen, cacheClient, apiKey, now, started,
                   saved, saves, clean, sharedOk>>

NextBulk ==
    \/ StartBulk
    \/ BulkLookupDone
    \/ \E i \in 1..MaxItems : BulkPosterDone(i)
    \/ \E i \in 1..MaxItems : BulkAnnotateDone(i)

\* One invocation of getRatingsfromDB; it shares no state with scrapeRatings.
SpecBulk == Init /\ [][NextBulk]_vars

\* What a resolved getRatingsfromDB returns: the objects the result array
\* refers to, as they are now.
BulkOutput == [i \in 1..Len(bulk.results) |-> bulk.metas[bulk.results[i]]]

\* ------------------------------------------------- overlapping scrapeRatings
\* Two invocations of scrapeRatings that overlap within one reading of the
\* clock, with an API key and an empty shared store.
InitOverlap == Init /\ apiKey /\ DOMAIN redis = {}

NextOverlap ==
    \/ \E c \in Calls : StartScrape(c)
    \/ \E c \in Calls : MetadataDone(c)
    \/ \E c \in Calls : ReadConnectDone(c)
    \/ \E c \in Calls : ReadGetDone(c)
    \/ \E c \in Calls : OmdbDone(c)
    \/ \E c \in Calls : SaveConnectDone(c)
    \/ \E c \in Calls : SaveSetDone(c)
    \/ \E c \in Calls : SaveExpireDone(c)
    \/ \E c \in Calls : PosterDone(c)
    \/ \E c \in Calls : AnnotateDone(c)

SpecOverlap == InitOverlap /\ [][NextOverlap]_vars

\* ----------------------------------------------------------------- handlers
\* The callbacks of defineCatalogHandler and defineMetaHandler (lines 215-240).
\* The handler is called and awaits getClient().
StartHandler(h) ==
    /\ handler[h].pc = "idle"
    /\ \E kind \in {"catalog", "meta"} :
          handler' = [handler EXCEPT ![h] = [@ EXCEPT !.pc = "getClient", !.kind = kind]]
    /\ UNCHANGED <<call, memoryCache, redis, isOpen, cacheClient, apiKey, now, started,
                   saved, saves, clean, sharedOk, bulk, applied>>

\* getClient() settles (lines 217, 231): it is awaited outside the try block,
\* so a rejection leaves the handler rejected without a call of closeClient.
GetClientDone(h) ==
    /\ handler[h].pc = "getClient"
    /\ \E ok \in BOOLEAN :
          handler' = [handler EXCEPT ![h] = [@ EXCEPT !.pc = IF ok THEN "handling" ELSE "rejected"]]
    /\ UNCHANGED <<call, memoryCache, redis, isOpen, cacheClient, apiKey, now, started,
                   saved, saves, clean, sharedOk, bulk, applied>>

\* handleCatalogRequest / handleMetaRequest settles (lines 219-226, 233-239):
\* its value or the fallback of the catch block is returned, after the
\* finally block has called closeClient().
HandleDone(h) ==
    /\ handler[h].pc = "handling"
    /\ \E ok \in BOOLEAN :
          handler' = [g \in Handlers |->
                         IF g = h
                         THEN [handler[g] EXCEPT !.pc = "done",
                                                 !.result = IF ok THEN "value" ELSE "fallback"]
                         ELSE [handler[g] EXCEPT !.closedUnder =
                                                     @ \/ handler[g].pc = "handling"]]
    /\ UNCHANGED <<call, memoryCache, redis, isOpen, cacheClient, apiKey, now, started,
                   saved, saves, clean, sharedOk, bulk, applied>>

NextHandlers ==
    \/ \E h \in Handlers : StartHandler(h)
    \/ \E h \in Handlers : GetClientDone(h)
    \/ \E h \in Handlers : HandleDone(h)

SpecHandlers == Init /\ [][NextHandlers]_vars

\* ------------------------------------------------------------------- api.ts
\* Raw score strings: every string of at most MaxLen characters over
\* ScoreChars, and the forms the rating provider uses.
ScoreChars == {"9", "1", ".", "/", " ", "%", "N"}
RawScores ==
    UNION {[1..n -> ScoreChars] : n \in 0..MaxLen}
        \cup {<<"9", "1", "%">>, <<"8", ".", "1", "/", "1", "0">>,
              <<"7", "2", " ", "%">>, NA}

\* formatScore(score), and formatScore of its result.
ApplyFormatScore ==
    /\ applied.op = "none"
    /\ \E score \in RawScores :
          applied' = [op |-> "formatScore", arg |-> score, out |-> formatScore(score),
                      again |-> formatScore(formatScore(score))]
    /\ UNCHANGED <<call, memoryCache, redis, isOpen, cacheClient, apiKey, now, started,
                   saved, saves, clean, sharedOk, bulk, handler>>

\* Bodies of the rating provider's answer: each score is absent, the 'N/A'
\* sentinel, empty or a score; Ratings is absent or lists sources.
RawValues == {NA, <<>>, <<"8", ".", "1", "/", "1", "0">>, <<"9", "1", "%">>}
RatingsLists ==
    {<<>>, <<ImdbEntry(<<"8", ".", "1", "/", "1", "0">>)>>}
        \cup {<<RtEntry(v)>> : v \in RawValues}
        \cup {<<ImdbEntry(<<"8", ".", "1", "/", "1", "0">>), RtEntry(v)>> : v \in RawValues}
        \cup {<<RtEntry(<<"9", "1", "%">>), RtEntry(NA)>>}
OmdbBodies ==
    {Undefined, OmdbNotFound}
        \cup {OmdbNoRatings(v) : v \in RawValues}
        \cup {Obj(("Response" :> "True") @@ ("Ratings" :> r)) : r \in RatingsLists}
        \cup {OmdbData(i, m, r) : i \in RawValues, m \in RawValues, r \in RatingsLists}
        \cup {Obj(("Response" :> "False") @@ ("imdbRating" :> <<"9", ".", "3">>))}
OmdbResponses == {[kind |-> "error"]} \cup {[kind |-> "ok", data |-> d] : d \in OmdbBodies}

\* fetchRatingsFromOMDb(title, year): {} without an API key (lines 30-33),
\* else the mapping built from the settled request.
ApplyFetchRatings ==
    /\ applied.op = "none"
    /\ \E response \in OmdbResponses :
          applied' = [op |-> "fetchRatingsFromOMDb", key |-> apiKey, arg |-> response,
                      out |-> IF apiKey THEN fetchRatingsFromOMDb(response) ELSE EmptyMap]
    /\ UNCHANGED <<call, memoryCache, redis, isOpen, cacheClient, apiKey, now, started,
                   saved, saves, clean, sharedOk, bulk, handler>>

NextPure == ApplyFormatScore \/ ApplyFetchRatings

\* One call of an exported function of api.ts.
SpecPure == Init /\ [][NextPure]_vars

\* ================================================================== claims
SameEntries(a, b) == {a[i] : i \in 1..Len(a)} = {b[i] : i \in 1..Len(b)}
\* Every entry of part is an entry of whole, with the same value.
Contains(whole, part) ==
    \A i \in 1..Len(part) :
        MapHas(whole, part[i].key) /\ MapGet(whole, part[i].key) = part[i].value
NonEmptyValued(m) ==
    LET Valued(e) == e.value # <<>> IN SelectSeq(m, Valued)

\* C1: scrapeRatings never throws and always returns a metadata record,
\* whatever the outcomes of the metadata lookup, the cache, the live fetch,
\* the poster fetch and the annotation.
C1_NeverThrowsReturnsRecord ==
    \A c \in Calls :
        call[c].pc = "done" => ~call[c].threw /\ IsObject(call[c].result)

\* C2: when the cache read returns a non-empty mapping, even a partial one,
\* scrapeRatings uses it as it is and never calls fetchRatingsFromOMDb.
C2_CacheHitNoLiveFetch ==
    \A c \in Calls :
        (call[c].readDone /\ MapSize(call[c].readResult) > 0)
            => /\ call[c].fetchCalls = 0
               /\ call[c].liveCalls = 0
               /\ call[c].saveCalls = 0
               /\ call[c].ratingMap = call[c].readResult

\* A partial cache hit (fewer providers than ratingKeys) was used and the
\* invocation has returned.
C2_Witness ==
    \E c \in Calls :
        /\ call[c].pc = "done"
        /\ call[c].readDone
        /\ MapSize(call[c].readResult) = 1
        /\ call[c].fetchCalls = 0
        /\ ~call[c].caught

\* C3: on a cache miss there is at most one live fetch; when it yields a
\* non-empty mapping, every entry of it is in a cache tier under the key
\* "{titleId}_{provider}_v1.0" when saveRatingsToCache completes, which is
\* before scrapeRatings returns; when it yields an empty mapping (or no fetch
\* is made) no cache tier changes at all.
C3_Stored(c) ==
    \A i \in 1..Len(call'[c].fetched) :
        LET e == call'[c].fetched[i]
            k == call'[c].imdbId \o <<"_">> \o e.key \o <<"_", "v", "1", ".", "0">>
        IN  IF call'[c].saveTier = "redis"
            THEN k \in DOMAIN redis' /\ redis'[k].value = e.value
            ELSE k \in DOMAIN memoryCache' /\ memoryCache'[k].value = e.value
                     /\ memoryCache'[k].timestamp = now

C3_State ==
    \A c \in Calls :
        /\ call[c].fetchCalls <= 1
        /\ call[c].liveCalls <= call[c].fetchCalls
        /\ call[c].fetchCalls = 1 => call[c].readDone /\ MapSize(call[c].readResult) = 0
        /\ (call[c].pc \in {"poster", "annotate", "done"} /\ MapSize(call[c].fetched) > 0)
               => call[c].saveTier # "none"
        /\ MapSize(call[c].fetched) = 0 => call[c].saveCalls = 0 /\ call[c].saveTier = "none"

C3_Step ==
    /\ \A c \in Calls :
          (call[c].saveTier = "none" /\ call'[c].saveTier # "none") => C3_Stored(c)
    /\ (memoryCache' # memoryCache \/ redis' # redis)
          => \E c \in Calls : call'[c] # call[c] /\ MapSize(call'[c].fetched) > 0

C3_MissFetchesOnceAndSaves == [][C3_Step /\ C3_State']_vars

\* A miss whose fetch gave three providers was saved in the shared store and
\* the invocation has returned.
C3_Witness ==
    \E c \in Calls :
        /\ call[c].pc = "done"
        /\ call[c].liveCalls = 1
        /\ MapSize(call[c].fetched) = 3
        /\ call[c].saveTier = "redis"

\* C4: degraded mode.  While no shared-store operation has ever succeeded,
\* every cache read and write goes to the fallback map without raising, and
\* a mapping saved by one resolution is served from the fallback map to a
\* later resolution of the same title that reads less than 24 hours later,
\* which then makes no live fetch.
C4_DegradedModeServes ==
    ~sharedOk =>
        \A c \in Calls :
          /\ ~call[c].threw
          /\ call[c].readDone => call[c].readTier = "memory"
          /\ call[c].saveTier \in {"none", "memory"}
          /\ (call[c].pc \in {"poster", "annotate", "done"} /\ MapSize(call[c].fetched) > 0)
                 => call[c].saveTier = "memory"
          /\ (/\ call[c].readDone
              /\ call[c].readPrior.n # 0
              /\ call[c].readAt - call[c].readPrior.time < 24 * 60 * 60 * 1000)
                 => /\ Contains(call[c].readResult, call[c].readPrior.map)
                    /\ call[c].fetchCalls = 0

\* With a client whose every operation failed, a second resolution was served
\* 12 hours later what the first one saved.
C4_Witness ==
    /\ ~sharedOk
    /\ cacheClient
    /\ \E c \in Calls :
          /\ call[c].pc = "done"
          /\ call[c].readPrior.n # 0
          /\ call[c].readAt > call[c].readPrior.time
          /\ MapSize(call[c].readResult) > 0
          /\ SameEntries(call[c].readResult, call[c].readPrior.map)

\* The cache read of invocation c directly followed a completed save for its
\* title (no cache tier changed and no time passed in between), less than 24
\* hours after that save began, and was answered by the tier the save wrote.
RoundTrip(c) ==
    /\ call[c].readDone
    /\ call[c].roundTrip.n # 0
    /\ call[c].readAt - call[c].roundTrip.start < 24 * 60 * 60 * 1000
    /\ call[c].readTier = call[c].roundTrip.tier

C6_MemoryRead(c) ==
    \A i \in 1..Len(ratingKeys) :
        LET k == call[c].imdbId \o <<"_">> \o ratingKeys[i] \o <<"_", "v", "1", ".", "0">>
            fresh == k \in DOMAIN memoryCache
                         /\ now - memoryCache[k].timestamp < 24 * 60 * 60 * 1000
            before == MapHas(call[c].ratingMap, ratingKeys[i])
            after == MapHas(call'[c].readResult, ratingKeys[i])
        IN  /\ fresh => after /\ MapGet(call'[c].readResult, ratingKeys[i]) = memoryCache[k].value
            /\ (~fresh /\ ~before) => ~after

C6_Step ==
    /\ \A c \in Calls :
          (~call[c].readDone /\ call'[c].readDone /\ call'[c].readTier = "memory")
              => C6_MemoryRead(c) /\ memoryCache' = memoryCache
    /\ \A k \in DOMAIN memoryCache : k \in DOMAIN memoryCache'

C6_TtlStrictLazyExpiry == [][C6_Step]_vars

\* A cache read at the instant an entry of the title was exactly 24 hours old
\* missed, and the entry is still in the fallback map.
C6_Witness ==
    \E c \in Calls :
        /\ call[c].pc = "omdb"
        /\ call[c].readTier = "memory"
        /\ \E k \in DOMAIN memoryCache :
              call[c].readAt - memoryCache[k].timestamp = 24 * 60 * 60 * 1000

\* C10: when getMetadata returns the empty record, scrapeRatings calls
\* neither the live rating provider nor the poster fetch nor addRatingToImage
\* and writes nothing to the cache.
C10_EmptyMetadataNoResolution ==
    \A c \in Calls :
        call[c].gotMetadata = Obj(EmptyObject)
            => /\ call[c].liveCalls = 0
               /\ call[c].saveCalls = 0
               /\ call[c].posterFetches = 0
               /\ call[c].annotateCalls = 0

\* C7: getRatingsfromDB resolves to a sequence as long as its input whose
\* position i holds the object of input item i, in whatever order the tasks
\* completed; an item whose id has no stored ratings is unchanged, so only
\* items with stored ratings are mutated.
C7_BulkPositional ==
    bulk.pc = "resolved" =>
        /\ Len(bulk.results) = Len(bulk.input)
        /\ \A i \in 1..Len(bulk.input) :
              /\ bulk.results[i] = i
              /\ BulkOutput[i].fields["id"] = bulk.input[i].fields["id"]
              /\ bulk.input[i].fields["id"] \notin DOMAIN bulk.ratings
                     => BulkOutput[i] = bulk.input[i]

\* Item 2 was fulfilled before item 1, item 1 was annotated and item 2 has no
\* stored ratings.
C7_Witness ==
    /\ bulk.pc = "resolved"
    /\ bulk.order = <<2, 1>>
    /\ bulk.metas[1] # bulk.input[1]
    /\ bulk.metas[1].fields["poster"] # PosterUrl
    /\ bulk.input[2].fields["id"] \notin DOMAIN bulk.ratings

\* C8: in getRatingsfromDB the failure of one item's poster fetch or
\* annotation is swallowed: the call does not reject, and it resolves only
\* after every item's attempt has completed.
C8_BulkSwallowsItemFailure ==
    /\ (\E i \in 1..Len(bulk.task) : bulk.task[i] = "rejected") => bulk.pc # "rejected"
    /\ bulk.pc \in {"resolved", "rejected"}
           => \A i \in 1..Len(bulk.task) : bulk.task[i] \in {"fulfilled", "rejected"}

\* C9: in both pipelines, when the filtered mapping is empty or the record
\* has no poster, the poster is not fetched, addRatingToImage is not called
\* and the poster is left as it was.
C9_SingleItemNoOp ==
    \A c \in Calls :
        (IsObject(call[c].gotMetadata)
            /\ (MapSize(call[c].filtered) = 0 \/ ~Truthy(call[c].gotMetadata, "poster")))
            => /\ call[c].posterFetches = 0
               /\ call[c].annotateCalls = 0
               /\ call[c].pc = "done" =>
                      /\ HasField(call[c].result, "poster") = HasField(call[c].gotMetadata, "poster")
                      /\ HasField(call[c].result, "poster")
                             => call[c].result.fields["poster"] = call[c].gotMetadata.fields["poster"]

C9_BulkNoOp ==
    \A i \in 1..Len(bulk.task) :
        (MapSize(bulk.filtered[i]) = 0 \/ ~Truthy(bulk.input[i], "poster"))
            => /\ bulk.posterFetches[i] = 0
               /\ bulk.annotateCalls[i] = 0
               /\ HasField(bulk.metas[i], "poster") = HasField(bulk.input[i], "poster")
               /\ HasField(bulk.metas[i], "poster")
                      => bulk.metas[i].fields["poster"] = bulk.input[i].fields["poster"]

C9_AnnotationNoOp == C9_SingleItemNoOp /\ C9_BulkNoOp

\* The provider name with every underscore rendered as a space.
C11_Name(key) == [i \in 1..Len(key) |-> IF key[i] = "_" THEN " " ELSE key[i]]

\* The entries of a mapping that the requested providers keep, in mapping
\* order, and the description fragment "(name: value) " of each.
C11_Kept(m, providers) ==
    LET Keep(e) == \E i \in 1..Len(providers) : providers[i] \in {<<"a", "l", "l">>, e.key}
    IN  SelectSeq(m, Keep)

RECURSIVE C11_Fragment(_)
C11_Fragment(kept) ==
    IF kept = <<>> THEN <<>>
    ELSE <<"(">> \o C11_Name(kept[1].key) \o <<":", " ">> \o kept[1].value \o <<")", " ">>
             \o C11_Fragment(Tail(kept))

\* C11: the provider filter keeps an entry if and only if the requested
\* providers contain "all" or the provider's name, and appends to the
\* existing description, for each kept entry in mapping order, the segment
\* "(name: value) " with every underscore of the name rendered as a space.
C11_FilterAndDescription ==
    \A i \in 1..Len(bulk.task) :
        bulk.input[i].fields["id"] \in DOMAIN bulk.ratings =>
            LET kept == C11_Kept(bulk.ratings[bulk.input[i].fields["id"]], bulk.providers)
                before == IF HasField(bulk.input[i], "description")
                          THEN bulk.input[i].fields["description"] ELSE <<>>
            IN  /\ bulk.filtered[i] = kept
                /\ bulk.metas[i].fields["description"] = before \o C11_Fragment(kept)

\* C15: one call of saveRatingsToCache never splits its write across both
\* tiers: whatever the outcomes of connect, set and expire, its keys are
\* written only in the shared store or only in the fallback map.
C15_WriteNotSplit ==
    \A c \in Calls :
        call[c].saveTier = "memory" => call[c].sharedSets = 0

\* C16: when the shared store yields a value for at least one of the
\* requested keys, the mapping getRatingsFromCache returns consists of the
\* shared store's values only and the fallback map is not consulted, also
\* when a get fails after an earlier get of the same read succeeded.
C16_SharedHitShortCircuits ==
    \A c \in Calls :
        (call[c].readDone /\ Len(call[c].readShared) > 0)
            => /\ call[c].readTier = "redis"
               /\ call[c].readResult = call[c].readShared

\* The entries a cache tier holds for a title.
C17_Stored(tier, id) ==
    {[key |-> ratingKeys[i],
      value |-> IF tier = "redis"
                THEN redis[id \o <<"_">> \o ratingKeys[i] \o <<"_", "v", "1", ".", "0">>].value
                ELSE memoryCache[id \o <<"_">> \o ratingKeys[i] \o <<"_", "v", "1", ".", "0">>].value] :
        i \in {j \in 1..Len(ratingKeys) :
                   (id \o <<"_">> \o ratingKeys[j] \o <<"_", "v", "1", ".", "0">>)
                       \in DOMAIN (IF tier = "redis" THEN redis ELSE memoryCache)}}

\* C17: two interleaved scrapeRatings calls for one title that both miss the
\* cache both make a live fetch and both write the cache, and once both
\* writes have completed the tier the last one wrote holds for the title
\* exactly the mapping of the call whose write finished last.
C17_LastWriteWins ==
    /\ \A c \in Calls :
          (call[c].readDone /\ Len(call[c].readResult) = 0 /\ IsObject(call[c].gotMetadata))
              => /\ call[c].liveCalls = 1
                 /\ (Len(call[c].fetched) > 0 /\ call[c].pc \in {"poster", "annotate", "done"})
                        => call[c].saveTier # "none"
    /\ (\A c \in Calls : call[c].saveTier # "none")
          => \A t \in Titles :
                 saved[t].n # 0 =>
                     C17_Stored(saved[t].tier, t)
                         = {saved[t].map[i] : i \in 1..Len(saved[t].map)}

\* C19: with two overlapping invocations of the handlers, closeClient is
\* never called by one while the other is between the completion of its
\* getClient call and the completion of its request handling.
C19_ClientNotClosedUnderRequest ==
    \A h \in Handlers : ~handler[h].closedUnder

\* C18: once a cache write has returned, part-way failures included, every
\* entry of the shared store carries an expiry.
C18_SharedEntriesExpire ==
    (\A c \in Calls : call[c].pc \notin {"save_connect", "save_set", "save_expire"})
        => \A k \in DOMAIN redis : redis[k].hasExpiry

\* The raw value the provider's answer holds for a provider, if it holds one:
\* imdbRating, Metascore, and the Value of the first entry of Ratings whose
\* Source is Rotten Tomatoes.
C12_RtHits(data) ==
    IF HasField(data, "Ratings")
    THEN {i \in 1..Len(data.fields["Ratings"]) :
              data.fields["Ratings"][i].Source = "Rotten Tomatoes"}
    ELSE {}
C12_HasRaw(data, k) ==
    IF k = IMDB THEN HasField(data, "imdbRating")
    ELSE IF k = METACRITIC THEN HasField(data, "Metascore")
    ELSE C12_RtHits(data) # {}
C12_Raw(data, k) ==
    IF k = IMDB THEN data.fields["imdbRating"]
    ELSE IF k = METACRITIC THEN data.fields["Metascore"]
    ELSE data.fields["Ratings"][CHOOSE i \in C12_RtHits(data) :
                                    \A j \in C12_RtHits(data) : i <= j].Value

\* C12: the mapping fetchRatingsFromOMDb returns has a provider key only if
\* that provider's raw value is present and is not the "N/A" sentinel, a
\* provider whose raw value is the sentinel is omitted, no key has an empty
\* or un-normalized value, and without an API key, on a network failure or
\* on a non-success response the mapping is empty.
C12_ProviderKeysOnlyForScores ==
    applied.op = "fetchRatingsFromOMDb" =>
        LET success == /\ applied.key
                       /\ applied.arg.kind = "ok"
                       /\ HasField(applied.arg.data, "Response")
                       /\ applied.arg.data.fields["Response"] = "True"
        IN  /\ ~success => applied.out = <<>>
            /\ \A i \in 1..Len(applied.out) :
                  LET e == applied.out[i]
                  IN  /\ e.key \in {IMDB, METACRITIC, ROTTEN_TOMATOES}
                      /\ C12_HasRaw(applied.arg.data, e.key)
                      /\ C12_Raw(applied.arg.data, e.key) # <<"N", "/", "A">>
                      /\ e.value # <<>>
                      /\ \A j \in 1..Len(e.value) : e.value[j] \in Digits \cup {"."}
            /\ success =>
                  \A k \in {IMDB, METACRITIC, ROTTEN_TOMATOES} :
                      (C12_HasRaw(applied.arg.data, k)
                           /\ C12_Raw(applied.arg.data, k) = <<"N", "/", "A">>)
                          => \A i \in 1..Len(applied.out) : applied.out[i].key # k

\* C13: every output of formatScore consists only of digits and at most one
\* decimal point, and contains no '%', no '/' and no whitespace.
C13_OutputIsRatingValue ==
    applied.op = "formatScore" =>
        /\ \A i \in 1..Len(applied.out) :
              applied.out[i] \in {"0", "1", "2", "3", "4", "5", "6", "7", "8", "9", "."}
        /\ Cardinality({i \in 1..Len(applied.out) : applied.out[i] = "."}) <= 1
        /\ \A i \in 1..Len(applied.out) : applied.out[i] \notin {"%", "/", " "}

\* C14: formatScore is idempotent, formatScore(formatScore(x)) =
\* formatScore(x) for every x, and formatScore("91%") = "91",
\* formatScore("8.1/10") = "8.1", formatScore("72 %") = "72",
\* formatScore("N/A") = "".
C14_FormatScoreIdempotent ==
    applied.op = "formatScore" =>
        /\ applied.again = applied.out
        /\ applied.arg = <<"9", "1", "%">> => applied.out = <<"9", "1">>
        /\ applied.arg = <<"8", ".", "1", "/", "1", "0">> => applied.out = <<"8", ".", "1">>
        /\ applied.arg = <<"7", "2", " ", "%">> => applied.out = <<"7", "2">>
        /\ applied.arg = <<"N", "/", "A">> => applied.out = <<>>

\* formatScore was applied to a string with a unit after a space and changed it.
C14_Witness ==
    /\ applied.op = "formatScore"
    /\ applied.arg = <<"7", "2", " ", "%">>
    /\ applied.out = <<"7", "2">>
    /\ applied.again = applied.out

====
